---- MODULE Spec2Model ----
(***************************************************************************)
(* A model of custom_components/heatapp/heatapp/heatapp.py: the HeatappHub *)
(* command channel (one UDP socket guarded by one lock), the hub           *)
(* constructor, the hub queries and the HeatappRadiator operations, run by *)
(* concurrent caller threads against a hub that answers, answers late or   *)
(* does not answer.                                                        *)
(*                                                                         *)
(* Strings are sequences of one-character strings; the two padding bytes   *)
(* 0x00 and 0x19 are the characters NUL and EM.  Floating point totals are *)
(* kept exactly, as integer numerators over Scale.                         *)
(***************************************************************************)
EXTENDS Integers, Sequences, FiniteSets, TLC

\* ------------------------------------------------------------ bounds

\* number of caller threads sharing the one Hub
NThreads == 2
\* number of operations started on the Hub after its construction
MaxOps == 2
\* number of answers that reach the socket after their call has returned
MaxLate == 1

Threads == 1..NThreads
NoThread == 0
\* the thread that constructs the Hub (__init__.py async_setup_entry)
Main == 1

\* ------------------------------------------------------------ text

NUL == "NUL"
EM == "EM"
Digits == <<"0", "1", "2", "3", "4", "5", "6", "7", "8", "9">>

\* str.rstrip(c): drop every trailing occurrence of the character c
RECURSIVE rstrip(_, _)
rstrip(s, c) ==
    IF s # <<>> /\ s[Len(s)] = c THEN rstrip(SubSeq(s, 1, Len(s) - 1), c) ELSE s

\* data.decode().rstrip("\x00").rstrip("\x19")
decode(data) == rstrip(rstrip(data, NUL), EM)

RECURSIVE SplitAcc(_, _, _)
SplitAcc(s, cur, acc) ==
    IF s = <<>> THEN Append(acc, cur)
    ELSE IF Head(s) = "," THEN SplitAcc(Tail(s), <<>>, Append(acc, cur))
    ELSE SplitAcc(Tail(s), Append(cur, Head(s)), acc)

\* str.split(","): the fields between commas, at least one
split(s) == SplitAcc(s, <<>>, <<>>)

DigitVal(c) == (CHOOSE k \in 1..10 : Digits[k] = c) - 1
IsDigit(c) == \E k \in 1..10 : Digits[k] = c

RECURSIVE NatVal(_, _)
NatVal(s, acc) == IF s = <<>> THEN acc ELSE NatVal(Tail(s), 10 * acc + DigitVal(Head(s)))

\* int(x) raises ValueError unless x is an optional sign and one or more digits
IsInt(x) ==
    LET body == IF x # <<>> /\ Head(x) \in {"-", "+"} THEN Tail(x) ELSE x
    IN  body # <<>> /\ \A k \in 1..Len(body) : IsDigit(body[k])

int(x) ==
    IF Head(x) = "-" THEN 0 - NatVal(Tail(x), 0)
    ELSE IF Head(x) = "+" THEN NatVal(Tail(x), 0)
    ELSE NatVal(x, 0)

RECURSIVE NatStr(_)
NatStr(n) == IF n < 10 THEN <<Digits[n + 1]>> ELSE Append(NatStr(n \div 10), Digits[(n % 10) + 1])

\* the text an f-string gives an integer
str(n) == IF n < 0 THEN <<"-">> \o NatStr(0 - n) ELSE NatStr(n)

\* sep.join(parts)
RECURSIVE join(_, _)
join(parts, sep) ==
    IF parts = <<>> THEN <<>>
    ELSE IF Len(parts) = 1 THEN parts[1]
    ELSE parts[1] \o sep \o join(Tail(parts), sep)

\* [int(x) for x in fields]: the integers, or ValueError at the first bad field
AllInt(fields) == \A k \in 1..Len(fields) : IsInt(fields[k])
Ints(fields) == [k \in 1..Len(fields) |-> int(fields[k])]

\* response[2:]
From2(fields) == SubSeq(fields, 3, Len(fields))

\* ------------------------------------------------------------ commands

OPF == <<"O", "P", "F", "/">>
OPS1 == <<"O", "P", "S", "1", "/">>
OPS2 == <<"O", "P", "S", "2", "/">>
OPS3 == <<"O", "P", "S", "3", "/">>
OPS38 == <<"O", "P", "S", "3", "8", "/">>
OPH == <<"O", "P", "H", "/">>

\* f"R#{rad_id}#{i}#0#0*?{field}/"
ReadCmd(rad_id, i, field) ==
    <<"R", "#">> \o str(rad_id) \o <<"#">> \o str(i)
        \o <<"#", "0", "#", "0", "*", "?">> \o field \o <<"/">>

\* f"D#{rad_id}#{i}#0#0*T{target}/"
SetCmd(rad_id, i, target) ==
    <<"D", "#">> \o str(rad_id) \o <<"#">> \o str(i)
        \o <<"#", "0", "#", "0", "*", "T">> \o str(target) \o <<"/">>

FieldT == <<"T">>
FieldUD == <<"U", "D">>
FieldF == <<"F">>

OPOK == <<"O", "P", "O", "K">>
OK == <<"O", "K">>
TIMEOUT == <<"T", "I", "M", "E", "O", "U", "T">>

\* ------------------------------------------------------------ the hub's answers

\* What a hub answers.  ReplyHub is a well-formed hub-level answer: to OPF/ the
\* firmware 9, site 0 and unit 1, to OPS2/ the zone ids 0, 1, 2, to OPS3/ the unit
\* counts 0, 1, 2.  ReplyHubBad has too few fields for OPF/ and no integer for the
\* others.  ReplyUnitA and ReplyUnitB are well-formed unit-level answers.
ReplyHub == <<"O", "P", "O", "K", ",", "9", ",", "0", ",", "1", ",", "2", EM>>
ReplyHubBad == <<"O", "P", "O", "K", ",", "0", ",", "x">>
ReplyErr == <<"E", "R", "R">>
ReplyUnitA == <<"O", "K", ",", "5", "0", "0", "0", ",", "1", "0", "0">>
ReplyUnitB == <<"O", "K", ",", "5", "0", "0", "0", ",", "2", "0", "0", NUL>>
ReplyUnitBad == <<"O", "K", ",", "x">>
ReplyNw ==
    <<"O", "P", "O", "K", ",", "0", ",", "1", "0", ",", "0", ",", "0", ",", "2",
      ",", "1", "0", ",", "0", ",", "0", ",", "1",
      ",", "2", "5", "5", ",", "0", ",", "0", ",", "0">>
ReplyTime ==
    <<"O", "P", "O", "K", ",", "1", "2", ",", "3", "0", ",", "0",
      ",", "1", ",", "1", "1", ",", "2", "6", ",", "0">>

\* The answers to one command: to a hub-level command (OP...) the hub-level
\* answers, an error and a unit-level answer; to a unit-level command (R#, D#) the
\* unit-level answers, an error and a hub-level answer.
Replies(cmd) ==
    IF Head(cmd) = "O"
    THEN {ReplyHub, ReplyHubBad, ReplyErr, ReplyUnitA}
            \cup (IF cmd = OPS38 THEN {ReplyNw} ELSE {})
            \cup (IF cmd = OPH THEN {ReplyTime} ELSE {})
    ELSE {ReplyUnitA, ReplyUnitB, ReplyUnitBad, ReplyErr, ReplyHub}

\* The answers that come after the call has returned: the well-formed answer to
\* the command.
LateReplies(cmd) == IF Head(cmd) = "O" THEN {ReplyHub} ELSE {ReplyUnitA}

\* the zone ids and the targets callers pass
RadIds == {0, 1, 2}
Targets == {21, 23}

\* ------------------------------------------------------------ values

Running == [kind |-> "running"]
Return(type, val) == [kind |-> "return", type |-> type, val |-> val]
Raise(exc) == [kind |-> "raise", exc |-> exc]
None == Return("None", <<>>)

\* an optional string: None, or the string
Nothing == <<>>
Some(x) == <<x>>

\* the denominator of the exact totals: multiplier = int(r[1]) / 10000
Scale == 10000

\* ------------------------------------------------------------ reading a response

\* hub-level success: response[0] == "OPOK"
HubOkLoose(r) == r[1] \in {OPOK, OK}
HubOk(r) == r[1] = OPOK

\* unit-level success: r[0] == "OK"
UnitOkLoose(r) == r[1] # ReplyErr
UnitOk(r) == r[1] = OK

\* HeatappHub.get_fw on the string send_command returned
get_fw_value(s) ==
    LET r == split(s)
    IN  IF HubOk(r)
        THEN IF Len(r) < 4 THEN Raise("IndexError")
             ELSE Return("dict", [firmware |-> r[2],
                                  device_id |-> r[3] \o <<"/">> \o r[4],
                                  idu |-> r[4]])
        ELSE None

radiator_list_strict(s) ==
    LET r == split(s)
    IN  IF HubOk(r)
        THEN IF AllInt(From2(r)) THEN Return("list", Ints(From2(r)))
             ELSE Raise("ValueError")
        ELSE Raise("ConnectionError")

\* __get_radiator_ids and __get_radiators_per_zone on the returned string
radiator_list(s) ==
    LET r == split(s)
    IN  IF HubOk(r)
        THEN IF AllInt(From2(r)) THEN Return("list", Ints(From2(r)))
             ELSE Raise("ValueError")
        ELSE Return("list", <<>>)

\* HeatappHub.ready on the returned string
ready_value(s) == Return("bool", HubOk(split(s)))

\* HeatappHub.get_nw on the returned string
get_nw_value(s) ==
    LET r == split(s)
    IN  IF HubOk(r)
        THEN IF Len(r) < 14 THEN Raise("IndexError")
             ELSE Return("dict", [ip |-> join(SubSeq(r, 3, 6), <<".">>),
                                  gateway |-> join(SubSeq(r, 7, 10), <<".">>),
                                  subnet |-> join(SubSeq(r, 11, 14), <<".">>)])
        ELSE None

IsLeap(y) == (y % 4 = 0 /\ y % 100 # 0) \/ y % 400 = 0
DaysIn(m, y) ==
    IF m = 2 THEN (IF IsLeap(y) THEN 29 ELSE 28)
    ELSE IF m \in {4, 6, 9, 11} THEN 30 ELSE 31

\* datetime.datetime(year, month, day, hour, minute, second) accepts its arguments
ValidDatetime(y, m, d, hh, mm, ss) ==
    /\ y \in 1..9999
    /\ m \in 1..12
    /\ d \in 1..DaysIn(m, y)
    /\ hh \in 0..23
    /\ mm \in 0..59
    /\ ss \in 0..59

\* HeatappHub.get_time on the returned string
get_time_value(s) ==
    LET r == split(s)
        f == Tail(r)
        d == Ints(f)
    IN  IF HubOk(r)
        THEN IF ~AllInt(f) THEN Raise("ValueError")
             ELSE IF Len(d) < 7 THEN Raise("IndexError")
             ELSE IF ~ValidDatetime(2000 + d[7], d[6], d[5], d[1], d[2], d[3])
                  THEN Raise("ValueError")
             ELSE Return("datetime", <<2000 + d[7], d[6], d[5], d[1], d[2], d[3]>>)
        ELSE None

\* HeatappRadiator.get_temperature on the returned string
get_temperature_value(s) ==
    LET r == split(s)
    IN  IF UnitOk(r)
        THEN IF Len(r) < 2 THEN Raise("IndexError")
             ELSE IF ~IsInt(r[2]) THEN Raise("ValueError")
             ELSE IF Len(r) < 3 THEN Raise("IndexError")
             ELSE IF ~IsInt(r[3]) THEN Raise("ValueError")
             ELSE Return("dict", [current |-> int(r[2]), target |-> int(r[3])])
        ELSE None

\* HeatappRadiator.__get_fw on the returned string
rad_fw_value(s) ==
    LET r == split(s)
    IN  IF UnitOk(r)
        THEN IF Len(r) < 3 THEN Raise("IndexError")
             ELSE Return("dict", [firmware |-> Some(r[2]), serial |-> Some(r[3])])
        ELSE Return("dict", [firmware |-> Nothing, serial |-> Nothing])

energy_term_unscaled(r) ==
    IF Len(r) < 3 THEN Raise("IndexError")
    ELSE IF ~IsInt(r[3]) THEN Raise("ValueError")
    ELSE Return("float", int(r[3]) * Scale)

\* one unit's share of get_energy_usage, over Scale:
\* multiplier = int(r[1]) / 10000; float(int(r[2]) * multiplier)
energy_term(r) ==
    IF Len(r) < 2 THEN Raise("IndexError")
    ELSE IF ~IsInt(r[2]) THEN Raise("ValueError")
    ELSE IF Len(r) < 3 THEN Raise("IndexError")
    ELSE IF ~IsInt(r[3]) THEN Raise("ValueError")
    ELSE Return("float", int(r[3]) * int(r[2]))

power_term_second(r) ==
    IF Len(r) < 3 THEN Raise("IndexError")
    ELSE IF ~IsInt(r[3]) THEN Raise("ValueError")
    ELSE Return("int", int(r[3]))

\* one unit's share of __get_power: int(r[1])
power_term(r) ==
    IF Len(r) < 2 THEN Raise("IndexError")
    ELSE IF ~IsInt(r[2]) THEN Raise("ValueError")
    ELSE Return("int", int(r[2]))

\* ------------------------------------------------------------ state

VARIABLES
    hub,        \* the HeatappHub object: its state and attributes
    lock,       \* HeatappHub._lock: the thread holding it, or NoThread
    pending,    \* requests the hub has received and not answered
    inflight,   \* answers to calls that have returned, still on their way
    sockbuf,    \* datagrams waiting in the receive buffer of HeatappHub._sock
    pc,         \* where each thread is
    frame,      \* each thread's locals in the operation it runs
    radiators,  \* the HeatappRadiator objects constructed, by rad_id
    nops,       \* operations started since the Hub was constructed
    nlate,      \* answers left to arrive after their call had returned
    units,      \* the target each physical unit of each zone was last set to
    climate,    \* the climate entities' reported temperatures, by rad_id
    returned    \* what each thread knows of the last call it finished

vars ==
    <<hub, lock, pending, inflight, sockbuf, pc, frame, radiators, nops, nlate,
      units, climate, returned>>

NoFrame ==
    [op |-> "none", rad_id |-> 0, target |-> 0, command |-> <<>>, i |-> 0,
     rad_count |-> 0, okay |-> FALSE, total |-> 0,
     fw |-> [firmware |-> Nothing, serial |-> Nothing],
     sent |-> <<>>, resps |-> <<>>, how |-> <<>>, result |-> Running]

NoRadiator == [made |-> FALSE, firmware |-> Nothing, serial |-> Nothing, power |-> 0]

\* The zones of the hub the model talks to: zone r has r physical units, as
\* ReplyHub tells OPS2/ and OPS3/; no unit has been given a target yet.
NoUnits == [r \in RadIds |-> [i \in 1..r |-> Nothing]]

\* climate.py HeatappRadiator.__init__: nothing reported yet
NoClimate == [current |-> Nothing, target |-> Nothing]

\* HeatappHub.__init__ up to the call of get_fw: the socket and the lock exist,
\* the constructing thread is about to send OPF/
Init ==
    /\ hub = [state |-> "Connecting", host |-> "host", port |-> "port",
              firmware |-> Nothing, device_id |-> Nothing, idu |-> Nothing,
              radiator_ids |-> <<>>, radiators_per_zone |-> <<>>]
    /\ lock = NoThread
    /\ pending = <<>>
    /\ inflight = <<>>
    /\ sockbuf = <<>>
    /\ pc = [t \in Threads |-> IF t = Main THEN "acquire" ELSE "idle"]
    /\ frame = [t \in Threads |->
                  IF t = Main THEN [NoFrame EXCEPT !.op = "HubInit", !.command = OPF]
                  ELSE NoFrame]
    /\ radiators = [r \in RadIds |-> NoRadiator]
    /\ nops = 0
    /\ nlate = 0
    /\ units = NoUnits
    /\ climate = [r \in RadIds |-> NoClimate]
    /\ returned = [t \in Threads |-> Nothing]

\* ------------------------------------------------------------ send_command

\* No call has returned a result its caller has not taken yet.  A caller takes its
\* result before anything else happens: the step is local to the caller, so taking
\* it first loses no behaviour of the others.
NoneDone == \A t \in Threads : pc[t] # "done"

\* `with self._lock:` may enter
CanAcquireNoLock(t) == TRUE
CanAcquire(t) == lock = NoThread

\* leaving the `with self._lock:` block
ReleaseNever(t) == lock
Release(t) == NoThread

\* `with self._lock:` entered
Acquire(t) ==
    /\ NoneDone
    /\ pc[t] = "acquire"
    /\ CanAcquire(t)
    /\ lock' = t
    /\ pc' = [pc EXCEPT ![t] = "sendto"]
    /\ UNCHANGED <<hub, pending, inflight, sockbuf, frame, radiators, nops, nlate,
                   units, climate, returned>>

SendtoTwice(t) ==
    /\ NoneDone
    /\ pc[t] = "sendto"
    /\ pending' = pending \o << [cmd |-> frame[t].command, for |-> t],
                               [cmd |-> frame[t].command, for |-> t] >>
    /\ frame' = [frame EXCEPT ![t].sent = @ \o <<frame[t].command, frame[t].command>>]
    /\ pc' = [pc EXCEPT ![t] = "recvfrom"]
    /\ UNCHANGED <<hub, lock, inflight, sockbuf, radiators, nops, nlate,
                   units, climate, returned>>

\* self._sock.sendto(command.encode(), (self._host, self._port))
Sendto(t) ==
    /\ NoneDone
    /\ pc[t] = "sendto"
    /\ pending' = Append(pending, [cmd |-> frame[t].command, for |-> t])
    /\ frame' = [frame EXCEPT ![t].sent = Append(@, frame[t].command)]
    /\ pc' = [pc EXCEPT ![t] = "recvfrom"]
    /\ UNCHANGED <<hub, lock, inflight, sockbuf, radiators, nops, nlate,
                   units, climate, returned>>

\* The hub carries out the command it answers with status OK: a
\* D#{rad_id}#{i}#0#0*T{target}/ gives unit i of zone rad_id the target.
Answered(u, cmd, d) ==
    [r \in RadIds |-> [i \in DOMAIN u[r] |->
        IF split(decode(d))[1] = OK /\ \E g \in Targets : cmd = SetCmd(r, i, g)
        THEN Some(CHOOSE g \in Targets : cmd = SetCmd(r, i, g))
        ELSE u[r][i]]]

Without(seq, k) == SubSeq(seq, 1, k - 1) \o SubSeq(seq, k + 1, Len(seq))

\* The hub answers one of the requests it holds; the answer is a datagram in the
\* receive buffer of the socket.
HubReply ==
    NoneDone /\ \E k \in 1..Len(pending) : \E d \in Replies(pending[k].cmd) :
        /\ sockbuf' = Append(sockbuf, [data |-> d, for |-> pending[k].for])
        /\ pending' = Without(pending, k)
        /\ units' = Answered(units, pending[k].cmd, d)
        /\ UNCHANGED <<hub, lock, inflight, pc, frame, radiators, nops, nlate,
                       climate, returned>>

\* An answer to a call that has returned reaches the socket: it waits in the
\* receive buffer for whoever reads the socket next.
LateReply ==
    NoneDone /\ \E k \in 1..Len(inflight) :
        /\ sockbuf' = Append(sockbuf, [data |-> inflight[k], for |-> NoThread])
        /\ inflight' = Without(inflight, k)
        /\ UNCHANGED <<hub, lock, pending, pc, frame, radiators, nops, nlate,
                       units, climate, returned>>

Drop(seq, t) == SelectSeq(seq, LAMBDA e : e.for # t)
Disown(seq, t) ==
    [k \in 1..Len(seq) |-> IF seq[k].for = t THEN [seq[k] EXCEPT !.for = NoThread]
                           ELSE seq[k]]
Mine(seq, t) == SelectSeq(seq, LAMBDA e : e.for = t)

\* What becomes of the request of the call of t that returns without its answer,
\* b being the receive buffer it leaves: the request or its answer is lost, or the
\* answer comes later, to whoever then reads the socket.
Leftover(b, t) ==
    {[pending |-> Drop(pending, t), inflight |-> inflight, sockbuf |-> Drop(b, t),
      late |-> 0, units |-> units]}
        \cup (IF nlate < MaxLate /\ Mine(b, t) # <<>>
              THEN {[pending |-> Drop(pending, t), inflight |-> inflight,
                     sockbuf |-> Disown(b, t), late |-> 1, units |-> units]}
              ELSE {})
        \cup (IF nlate < MaxLate /\ Mine(pending, t) # <<>>
              THEN {[pending |-> Drop(pending, t), inflight |-> Append(inflight, d),
                     sockbuf |-> Drop(b, t), late |-> 1,
                     units |-> Answered(units, Mine(pending, t)[1].cmd, d)] :
                        d \in LateReplies(Mine(pending, t)[1].cmd)}
              ELSE {})

RecvfromBlocking(t) ==
    IF sockbuf # <<>>
    THEN {[s |-> decode(Head(sockbuf).data),
           how |-> IF Head(sockbuf).for = t THEN "own" ELSE "other",
           left |-> l] : l \in Leftover(Tail(sockbuf), t)}
    ELSE {}

\* data, _ = self._sock.recvfrom(1024): the first datagram in the buffer, decoded
\* and stripped; or socket.timeout when none arrived, which returns "TIMEOUT"
Recvfrom(t) ==
    IF sockbuf # <<>>
    THEN {[s |-> decode(Head(sockbuf).data),
           how |-> IF Head(sockbuf).for = t THEN "own" ELSE "other",
           left |-> l] : l \in Leftover(Tail(sockbuf), t)}
    ELSE {[s |-> TIMEOUT, how |-> "timeout", left |-> l] : l \in Leftover(sockbuf, t)}

\* send_command returns x.s to the caller t, which goes on with locals f at p
Returns(t, x, f, p) ==
    /\ NoneDone
    /\ pc[t] = "recvfrom"
    /\ lock' = Release(t)
    /\ pending' = x.left.pending
    /\ inflight' = x.left.inflight
    /\ sockbuf' = x.left.sockbuf
    /\ nlate' = nlate + x.left.late
    /\ units' = x.left.units
    /\ frame' = [frame EXCEPT ![t] =
                   [f EXCEPT !.resps = Append(@, x.s), !.how = Append(@, x.how)]]
    /\ pc' = [pc EXCEPT ![t] = p]
    /\ UNCHANGED <<climate, returned>>

Done(f, result) == [f EXCEPT !.result = result]
Next_cmd_same(f, c) == f
Next_cmd(f, c) == [f EXCEPT !.command = c]


\* ------------------------------------------------------------ HeatappHub.__init__

\* fw = self.get_fw(); if fw is None: raise ConnectionError
HubInit_get_fw(t) ==
    /\ frame[t].op = "HubInit"
    /\ frame[t].command = OPF
    /\ \E x \in Recvfrom(t) :
         LET fw == get_fw_value(x.s)
         IN  IF fw.kind = "raise"
             THEN /\ Returns(t, x, Done(frame[t], fw), "done")
                  /\ hub' = [hub EXCEPT !.state = "Failed"]
             ELSE IF fw.type = "None"
             THEN /\ Returns(t, x, Done(frame[t], Raise("ConnectionError")), "done")
                  /\ hub' = [hub EXCEPT !.state = "Failed"]
             ELSE /\ Returns(t, x, Next_cmd(frame[t], OPS2), "acquire")
                  /\ hub' = [hub EXCEPT !.firmware = Some(fw.val.firmware),
                                        !.device_id = Some(fw.val.device_id),
                                        !.idu = Some(fw.val.idu)]
    /\ UNCHANGED <<radiators, nops>>

\* self.radiator_ids = self.__get_radiator_ids()
HubInit_get_radiator_ids(t) ==
    /\ frame[t].op = "HubInit"
    /\ frame[t].command = OPS2
    /\ \E x \in Recvfrom(t) :
         LET l == radiator_list(x.s)
         IN  IF l.kind = "raise"
             THEN /\ Returns(t, x, Done(frame[t], l), "done")
                  /\ hub' = [hub EXCEPT !.state = "Failed"]
             ELSE /\ Returns(t, x, Next_cmd(frame[t], OPS3), "acquire")
                  /\ hub' = [hub EXCEPT !.radiator_ids = l.val]
    /\ UNCHANGED <<radiators, nops>>

\* self.radiators_per_zone = self.__get_radiators_per_zone(); the Hub is built
HubInit_get_radiators_per_zone(t) ==
    /\ frame[t].op = "HubInit"
    /\ frame[t].command = OPS3
    /\ \E x \in Recvfrom(t) :
         LET l == radiator_list(x.s)
         IN  IF l.kind = "raise"
             THEN /\ Returns(t, x, Done(frame[t], l), "done")
                  /\ hub' = [hub EXCEPT !.state = "Failed"]
             ELSE /\ Returns(t, x, Done(frame[t], Return("Hub", <<>>)), "done")
                  /\ hub' = [hub EXCEPT !.radiators_per_zone = l.val,
                                        !.state = "Ready"]
    /\ UNCHANGED <<radiators, nops>>

\* climate.py HeatappRadiator.set_temperature: the entity reports the target it
\* asked for once radiator.set_temperature has returned
Report(c, f) == [c EXCEPT !.target = Some(f.target)]

\* climate.py HeatappRadiator.update: if r is not None, the entity reports the
\* temperatures read
Update(c, f) ==
    IF f.result.type = "None" THEN c
    ELSE [c EXCEPT !.current = Some(f.result.val.current),
                   !.target = Some(f.result.val.target)]

\* what the climate entity of the Radiator reports after the call of frame f
Reported(c, f) ==
    IF f.result.kind = "raise" THEN c
    ELSE IF f.op = "set_temperature" THEN Report(c, f)
    ELSE IF f.op = "get_temperature" THEN Update(c, f)
    ELSE c

\* every unit of the zone answered the call's own command with status OK
Accepted(f) ==
    /\ Len(f.resps) >= 1
    /\ \A k \in 1..Len(f.resps) : f.how[k] = "own" /\ split(f.resps[k])[1] = OK

\* what the caller knows when set_temperature has returned True and every unit
\* accepted: the zone and the target it has set
Knows(f) ==
    IF f.op = "set_temperature" /\ f.result = Return("bool", TRUE) /\ Accepted(f)
    THEN Some([rad_id |-> f.rad_id, target |-> f.target])
    ELSE Nothing

\* the caller takes the result (or the exception) of the operation it ran
Finish(t) ==
    /\ pc[t] = "done"
    /\ pc' = [pc EXCEPT ![t] = "idle"]
    /\ frame' = [frame EXCEPT ![t] = NoFrame]
    /\ climate' = [climate EXCEPT ![frame[t].rad_id] = Reported(@, frame[t])]
    /\ returned' = [returned EXCEPT ![t] = Knows(frame[t])]
    /\ UNCHANGED <<hub, lock, pending, inflight, sockbuf, radiators, nops, nlate,
                   units>>

\* ------------------------------------------------------------ hub queries

\* a thread enters an operation on the constructed Hub with locals f, at p
Begin(t, f, p) ==
    /\ NoneDone
    /\ pc[t] = "idle"
    /\ \A u \in 1..(t - 1) : pc[u] # "idle"
    /\ hub.state = "Ready"
    /\ nops < MaxOps
    /\ nops' = nops + 1
    /\ frame' = [frame EXCEPT ![t] = f]
    /\ pc' = [pc EXCEPT ![t] = p]
    /\ returned' = [returned EXCEPT ![t] = Nothing]
    /\ UNCHANGED <<hub, lock, pending, inflight, sockbuf, radiators, nlate,
                   units, climate>>

Query(name, command) == [NoFrame EXCEPT !.op = name, !.command = command]

Call_ready(t) == Begin(t, Query("ready", OPS1), "acquire")
Call_get_fw(t) == Begin(t, Query("get_fw", OPF), "acquire")
Call_get_nw(t) == Begin(t, Query("get_nw", OPS38), "acquire")
Call_get_time(t) == Begin(t, Query("get_time", OPH), "acquire")

\* what the operation `name` of one exchange makes of the string s
Value(name, s) ==
    CASE name = "ready" -> ready_value(s)
      [] name = "get_fw" -> get_fw_value(s)
      [] name = "get_nw" -> get_nw_value(s)
      [] name = "get_time" -> get_time_value(s)
      [] name = "get_temperature" -> get_temperature_value(s)

\* an operation of one exchange returns its value for the string it was given
Single(t, name) ==
    /\ frame[t].op = name
    /\ \E x \in Recvfrom(t) : Returns(t, x, Done(frame[t], Value(name, x.s)), "done")
    /\ UNCHANGED <<hub, radiators, nops>>

get_fw_store(t) ==
    /\ frame[t].op = "get_fw"
    /\ \E x \in Recvfrom(t) :
         LET v == get_fw_value(x.s)
         IN  /\ Returns(t, x, Done(frame[t], v), "done")
             /\ hub' = [hub EXCEPT !.firmware =
                           IF v.kind = "return" /\ v.type = "dict"
                           THEN Some(v.val.firmware) ELSE Nothing]
    /\ UNCHANGED <<radiators, nops>>

ready(t) == Single(t, "ready")
get_fw(t) == Single(t, "get_fw")
get_nw(t) == Single(t, "get_nw")
get_time(t) == Single(t, "get_time")

\* ------------------------------------------------------------ HeatappRadiator

rad_count_default(rad_id) ==
    LET ids == hub.radiator_ids
        zones == hub.radiators_per_zone
        at == {k \in 1..Len(ids) : ids[k] = rad_id}
        first == CHOOSE k \in at : \A j \in at : k <= j
    IN  IF at = {} \/ first > Len(zones) THEN Return("int", 0)
        ELSE Return("int", zones[first])

\* self._hub.radiators_per_zone[self._hub.radiator_ids.index(self.rad_id)]:
\* list.index raises ValueError, the subscript IndexError
rad_count(rad_id) ==
    LET ids == hub.radiator_ids
        zones == hub.radiators_per_zone
        at == {k \in 1..Len(ids) : ids[k] = rad_id}
        first == CHOOSE k \in at : \A j \in at : k <= j
    IN  IF at = {} THEN Raise("ValueError")
        ELSE IF first > Len(zones) THEN Raise("IndexError")
        ELSE Return("int", zones[first])

Call_RadiatorInitLookupFirst(t) ==
    \E rad \in RadIds :
        LET f == [NoFrame EXCEPT !.op = "RadiatorInit", !.rad_id = rad,
                                 !.command = ReadCmd(rad, 1, FieldF)]
        IN  IF rad_count(rad).kind = "raise"
            THEN Begin(t, Done([f EXCEPT !.command = <<>>], rad_count(rad)), "done")
            ELSE Begin(t, f, "acquire")

\* HeatappRadiator(hub, rad_id): __init__ calls __get_fw first
Call_RadiatorInit(t) ==
    \E rad \in RadIds :
        Begin(t, [NoFrame EXCEPT !.op = "RadiatorInit", !.rad_id = rad,
                                 !.command = ReadCmd(rad, 1, FieldF)], "acquire")

Made(f) ==
    [made |-> TRUE, firmware |-> f.fw.firmware, serial |-> f.fw.serial,
     power |-> f.total]

\* fw = self.__get_fw(); then __get_power looks the unit count up and starts its loop
RadiatorInit_get_fw(t) ==
    /\ frame[t].op = "RadiatorInit"
    /\ frame[t].i = 0
    /\ \E x \in Recvfrom(t) :
         LET fw == rad_fw_value(x.s)
             n == rad_count(frame[t].rad_id)
             f == IF fw.kind = "raise" THEN frame[t] ELSE [frame[t] EXCEPT !.fw = fw.val]
         IN  IF fw.kind = "raise"
             THEN Returns(t, x, Done(f, fw), "done") /\ UNCHANGED radiators
             ELSE IF n.kind = "raise"
             THEN Returns(t, x, Done(f, n), "done") /\ UNCHANGED radiators
             ELSE IF n.val < 1
             THEN /\ Returns(t, x, Done(f, Return("Radiator", <<>>)), "done")
                  /\ radiators' = [radiators EXCEPT ![f.rad_id] = Made(f)]
             ELSE /\ Returns(t, x, [f EXCEPT !.i = 1, !.rad_count = n.val,
                                      !.command = ReadCmd(f.rad_id, 1, FieldUD)],
                             "acquire")
                  /\ UNCHANGED radiators
    /\ UNCHANGED <<hub, nops>>

\* one turn of the loop of __get_power; after the last, the Radiator is built
RadiatorInit_get_power(t) ==
    /\ frame[t].op = "RadiatorInit"
    /\ frame[t].i >= 1
    /\ \E x \in Recvfrom(t) :
         LET r == split(x.s)
             term == IF UnitOk(r) THEN power_term(r) ELSE Return("int", 0)
             f == IF term.kind = "raise" THEN frame[t]
                  ELSE [frame[t] EXCEPT !.total = @ + term.val]
         IN  IF term.kind = "raise"
             THEN Returns(t, x, Done(f, term), "done") /\ UNCHANGED radiators
             ELSE IF f.i < f.rad_count
             THEN /\ Returns(t, x, [f EXCEPT !.i = @ + 1,
                                      !.command = ReadCmd(f.rad_id, f.i + 1, FieldUD)],
                             "acquire")
                  /\ UNCHANGED radiators
             ELSE /\ Returns(t, x, Done(f, Return("Radiator", <<>>)), "done")
                  /\ radiators' = [radiators EXCEPT ![f.rad_id] = Made(f)]
    /\ UNCHANGED <<hub, nops>>

Call_get_temperature(t) ==
    \E rad \in RadIds :
        /\ radiators[rad].made
        /\ Begin(t, [NoFrame EXCEPT !.op = "get_temperature", !.rad_id = rad,
                                    !.command = ReadCmd(rad, 1, FieldT)], "acquire")

get_temperature(t) == Single(t, "get_temperature")

\* the unit count is looked up and the loop over range(1, rad_count + 1) entered
\* (or not entered, when it is empty) with okay = False
Loop(name, rad, target, first, empty) ==
    LET n == rad_count(rad)
        f == [NoFrame EXCEPT !.op = name, !.rad_id = rad, !.target = target]
    IN  IF n.kind = "raise" THEN <<Done(f, n), "done">>
        ELSE IF n.val < 1 THEN <<Done(f, empty), "done">>
        ELSE <<[f EXCEPT !.i = 1, !.rad_count = n.val, !.command = first], "acquire">>

Call_set_temperature(t) ==
    \E rad \in RadIds : \E target \in Targets :
        /\ radiators[rad].made
        /\ LET l == Loop("set_temperature", rad, target, SetCmd(rad, 1, target),
                         Return("bool", FALSE))
           IN  Begin(t, l[1], l[2])

SetOkaySticky(okay, r) == okay \/ UnitOk(r)

\* if r[0] == "OK": okay = True; else: okay = False
SetOkay(okay, r) == UnitOk(r)

\* one turn of the loop of set_temperature: okay is overwritten every turn
set_temperature(t) ==
    /\ frame[t].op = "set_temperature"
    /\ \E x \in Recvfrom(t) :
         LET f == [frame[t] EXCEPT !.okay = SetOkay(@, split(x.s))]
         IN  IF f.i < f.rad_count
             THEN Returns(t, x, [f EXCEPT !.i = @ + 1,
                                   !.command = SetCmd(f.rad_id, f.i + 1, f.target)],
                          "acquire")
             ELSE Returns(t, x, Done(f, Return("bool", f.okay)), "done")
    /\ UNCHANGED <<hub, radiators, nops>>

Call_get_energy_usage(t) ==
    \E rad \in RadIds :
        /\ radiators[rad].made
        /\ LET l == Loop("get_energy_usage", rad, 0, ReadCmd(rad, 1, FieldUD), None)
           IN  Begin(t, l[1], l[2])

\* one turn of the loop of get_energy_usage; total is a numerator over Scale
get_energy_usage(t) ==
    /\ frame[t].op = "get_energy_usage"
    /\ \E x \in Recvfrom(t) : \E r \in {split(x.s)} :
         \E term \in {IF UnitOk(r) THEN energy_term(r) ELSE Return("float", 0)} :
         \E f \in {IF term.kind = "raise" THEN frame[t]
                   ELSE [frame[t] EXCEPT !.okay = SetOkay(@, r),
                                         !.total = @ + term.val]} :
             IF term.kind = "raise"
             THEN Returns(t, x, Done(f, term), "done")
             ELSE IF f.i < f.rad_count
             THEN Returns(t, x, [f EXCEPT !.i = @ + 1,
                                   !.command = ReadCmd(f.rad_id, f.i + 1, FieldUD)],
                          "acquire")
             ELSE Returns(t, x, Done(f, IF f.okay THEN Return("float", f.total)
                                        ELSE None), "done")
    /\ UNCHANGED <<hub, radiators, nops>>

\* ------------------------------------------------------------ the system

\* the steps of every call
Call(t) ==
    \/ Acquire(t)
    \/ Sendto(t)
    \/ Finish(t)

\* what the integration does with the Hub when it sets the entry up
Setup(t) ==
    \/ Call_ready(t)
    \/ ready(t)
    \/ Call_get_fw(t)
    \/ get_fw(t)
    \/ Call_get_nw(t)
    \/ get_nw(t)
    \/ Call_get_time(t)
    \/ get_time(t)
    \/ Call_RadiatorInit(t)
    \/ RadiatorInit_get_fw(t)
    \/ RadiatorInit_get_power(t)

\* what the entities do with their Radiator
Entity(t) ==
    \/ Call_get_temperature(t)
    \/ get_temperature(t)
    \/ Call_set_temperature(t)
    \/ set_temperature(t)
    \/ Call_get_energy_usage(t)
    \/ get_energy_usage(t)

\* The thread that sets the entry up constructs the Hub and then runs operations
\* on it, one after the other.
Next ==
    \/ HubReply
    \/ LateReply
    \/ HubInit_get_fw(Main)
    \/ HubInit_get_radiator_ids(Main)
    \/ HubInit_get_radiators_per_zone(Main)
    \/ Call(Main)
    \/ Setup(Main)
    \/ Entity(Main)

\* From the construction of the Hub on.
Spec == Init /\ [][Next]_vars

\* ------------------------------------------------------------ a set-up Hub

\* the text of ReplyUnitA's two fields
Text5000 == <<"5", "0", "0", "0">>
Text100 == <<"1", "0", "0">>

\* The integration set up (climate.py async_setup_entry): the Hub answered the
\* whole handshake with ReplyHub, the platform built the Radiator of every zone
\* in hub.radiator_ids, and every unit answered ReplyUnitA.
ZoneInit ==
    /\ hub = [state |-> "Ready", host |-> "host", port |-> "port",
              firmware |-> Some(<<"9">>), device_id |-> Some(<<"0", "/", "1">>),
              idu |-> Some(<<"1">>),
              radiator_ids |-> <<0, 1, 2>>, radiators_per_zone |-> <<0, 1, 2>>]
    /\ lock = NoThread
    /\ pending = <<>>
    /\ inflight = <<>>
    /\ sockbuf = <<>>
    /\ pc = [t \in Threads |-> "idle"]
    /\ frame = [t \in Threads |-> NoFrame]
    /\ radiators = [r \in RadIds |->
                      [made |-> TRUE, firmware |-> Some(Text5000),
                       serial |-> Some(Text100), power |-> 5000 * r]]
    /\ nops = 0
    /\ nlate = 0
    /\ units = NoUnits
    /\ climate = [r \in RadIds |-> NoClimate]
    /\ returned = [t \in Threads |-> Nothing]

\* The entities' threads run operations of their Radiators at the same time.
NextZone ==
    \/ HubReply
    \/ LateReply
    \/ \E t \in Threads : Call(t)
    \/ \E t \in Threads : Entity(t)

SpecZone == ZoneInit /\ [][NextZone]_vars

\* a step of a thread that has the lock or needs none: it sends, its recvfrom
\* returns and the operation goes on with the string, it returns to its caller
Step(t) ==
    \/ pc[t] = "sendto" /\ Sendto(t)
    \/ pc[t] = "recvfrom" /\ get_temperature(t)
    \/ pc[t] = "recvfrom" /\ set_temperature(t)
    \/ pc[t] = "recvfrom" /\ get_energy_usage(t)
    \/ pc[t] = "done" /\ Finish(t)

\* The lock is granted fairly: a thread that finds it free again and again gets
\* it.  A thread that can take its next step takes it: it sends, its recvfrom
\* returns with a datagram or with socket.timeout after 20 seconds
\* (sock.settimeout(20)), and it returns to its caller.  Nothing is asked of the
\* hub, which may never answer.
Fair ==
    \A t \in Threads :
        /\ SF_vars(Acquire(t))
        /\ WF_vars(Step(t))

SpecLive == ZoneInit /\ [][NextZone]_vars /\ Fair

\* ------------------------------------------------------------ claims

Last(seq) == seq[Len(seq)]
InCall(t) == pc[t] \in {"sendto", "recvfrom"}
MultiUnit == {"set_temperature", "get_energy_usage"}

\* C1: at most one command is in flight: while one thread has sent a datagram and
\* not yet got its reply or timed out, no other thread is inside the exclusive
\* section, sending or waiting, and the hub holds at most one unanswered request.
C1_OneInFlight ==
    /\ \A t \in Threads : \A u \in Threads :
         (t # u /\ pc[t] = "recvfrom") => ~InCall(u)
    /\ Len(pending) <= 1

\* two callers are in send_command at once: one waits for its reply, one for the lock
C1_Witness ==
    \E t \in Threads : \E u \in Threads :
        /\ t # u
        /\ pc[t] = "recvfrom"
        /\ pc[u] = "acquire"
        /\ pending # <<>>

\* C2: every string send_command has returned to a call is "TIMEOUT" or the hub's
\* reply to the command that call sent, never the reply to another call's command.
C2_OwnReplyOnly ==
    \A t \in Threads : \A k \in 1..Len(frame[t].how) :
        frame[t].how[k] \in {"own", "timeout"}

\* t has sent the first and not yet the last unit command of a multi-unit call
MidCall(t) ==
    /\ frame[t].op \in MultiUnit
    /\ Len(frame[t].sent) >= 1
    /\ Len(frame[t].sent) < frame[t].rad_count

\* C3 as claimed: between the first and the last unit command of a multi-unit
\* call, no other caller sends a command.
C3_HeldAcrossUnits ==
    [][\A t \in Threads : \A u \in Threads :
         (t # u /\ MidCall(t)) => ~(pc[u] = "sendto" /\ pc'[u] = "recvfrom")]_vars

\* C3 as amended: a multi-unit call holds the exclusive section during each of its
\* unit round trips and at no other time: it holds the lock exactly while it sends
\* or waits, and between two unit commands it does not.
C3_HeldPerRoundTrip ==
    \A t \in Threads :
        frame[t].op \in MultiUnit => (lock = t <=> InCall(t))

\* between two unit commands of one call, another caller's command is in flight
C3_Witness ==
    \E t \in Threads : \E u \in Threads :
        /\ t # u
        /\ MidCall(t)
        /\ pc[t] = "acquire"
        /\ lock = u
        /\ pc[u] = "recvfrom"

\* the status token of a returned string: field 0 after splitting on ","
Status(s) == split(s)[1]

\* rad_id has a unit count in the Hub's topology: it is in radiator_ids and its
\* first position there has an entry in radiators_per_zone
Defined(rad_id) ==
    \E k \in 1..Len(hub.radiator_ids) :
        /\ hub.radiator_ids[k] = rad_id
        /\ \A j \in 1..(k - 1) : hub.radiator_ids[j] # rad_id
        /\ k <= Len(hub.radiators_per_zone)

CountOf(rad_id) ==
    hub.radiators_per_zone[CHOOSE k \in 1..Len(hub.radiator_ids) :
                             /\ hub.radiator_ids[k] = rad_id
                             /\ \A j \in 1..(k - 1) : hub.radiator_ids[j] # rad_id]

PostOps ==
    {"ready", "get_nw", "get_time", "get_temperature", "set_temperature",
     "get_energy_usage"}

\* the failure value of an operation: false of ready and set_temperature, null of
\* the others
Failure(op, result) ==
    /\ result.kind = "return"
    /\ IF op \in {"ready", "set_temperature"}
       THEN result.type = "bool" /\ result.val = FALSE
       ELSE result.type = "None"

\* C4: a send_command call that got no reply has returned "TIMEOUT" without
\* raising and no longer holds the lock; a loop that got it has its flag false;
\* and an operation on the constructed Hub whose last call got it has returned its
\* failure value (false or null), not raised.
C4_Timeout ==
    \A t \in Threads :
        LET f == frame[t]
        IN  (f.how # <<>> /\ Last(f.how) = "timeout" /\ pc[t] \in {"acquire", "done"})
            => /\ Last(f.resps) = TIMEOUT
               /\ lock # t
               /\ (f.op \in MultiUnit => ~f.okay)
               /\ ((pc[t] = "done" /\ f.op \in PostOps) => Failure(f.op, f.result))

\* get_energy_usage on a zone of two units: unit 1 answered OK, unit 2 did not
\* answer, and the call returned null
C4_Witness ==
    \E t \in Threads :
        /\ pc[t] = "done"
        /\ frame[t].op = "get_energy_usage"
        /\ frame[t].how = <<"own", "timeout">>
        /\ Status(frame[t].resps[1]) = OK
        /\ frame[t].result.kind = "return"
        /\ frame[t].result.type = "None"

\* C5: in every state of a constructed Hub, radiator_ids and radiators_per_zone
\* have the same length (and so are empty together).
C5_SameLength ==
    hub.state = "Ready" => Len(hub.radiator_ids) = Len(hub.radiators_per_zone)

\* C6: the construction of the Hub fails with ConnectionError exactly when the
\* status of the OPF/ exchange is not OPOK, and then only OPF/ was sent and no Hub
\* exists; when OPS2/ fails radiator_ids is empty and OPS3/ is still sent; when
\* OPS3/ fails radiators_per_zone is empty and the Hub is Ready.
C6_Construction ==
    /\ \A t \in Threads :
         LET f == frame[t]
         IN  (f.op = "HubInit" /\ pc[t] = "done")
             => /\ (f.result.kind = "raise" /\ f.result.exc = "ConnectionError")
                     <=> Status(f.resps[1]) # OPOK
                /\ Status(f.resps[1]) # OPOK
                     => f.sent = <<OPF>> /\ hub.state = "Failed"
                /\ (Len(f.resps) >= 2 /\ Status(f.resps[2]) # OPOK)
                     => /\ hub.radiator_ids = <<>>
                        /\ f.sent = <<OPF, OPS2, OPS3>>
                /\ (Len(f.resps) >= 3 /\ Status(f.resps[3]) # OPOK)
                     => /\ hub.radiators_per_zone = <<>>
                        /\ hub.state = "Ready"
                        /\ f.result.kind = "return"
    /\ hub.state # "Ready"
         => nops = 0 /\ \A r \in RadIds : ~radiators[r].made

\* the OPF/ exchange timed out and the construction raised ConnectionError
C6_Witness ==
    /\ pc[Main] = "done"
    /\ frame[Main].op = "HubInit"
    /\ frame[Main].resps = <<TIMEOUT>>
    /\ frame[Main].result.kind = "raise"
    /\ frame[Main].result.exc = "ConnectionError"
    /\ hub.state = "Failed"

\* C7: the construction of a Radiator for a rad_id without a unit count in the
\* Hub's topology raises, whatever the hub answered, and every Radiator that
\* exists is of a rad_id with a unit count.
C7_NoRadiatorWithoutCount ==
    /\ \A r \in RadIds : radiators[r].made => Defined(r)
    /\ \A t \in Threads :
         (frame[t].op = "RadiatorInit" /\ pc[t] = "done" /\ ~Defined(frame[t].rad_id))
            => frame[t].result.kind = "raise"

\* the unit answered the ?F read with OK, rad_id is in radiator_ids without an
\* entry in radiators_per_zone, and the construction raised IndexError
C7_Witness ==
    \E t \in Threads :
        /\ frame[t].op = "RadiatorInit"
        /\ pc[t] = "done"
        /\ frame[t].rad_id \in {hub.radiator_ids[k] : k \in 1..Len(hub.radiator_ids)}
        /\ ~Defined(frame[t].rad_id)
        /\ Status(frame[t].resps[1]) = OK
        /\ frame[t].result.kind = "raise"
        /\ frame[t].result.exc = "IndexError"

\* D#2#1#0#0*T21/ and D#2#2#0#0*T21/
SetZone2To21 ==
    << <<"D", "#", "2", "#", "1", "#", "0", "#", "0", "*", "T", "2", "1", "/">>,
       <<"D", "#", "2", "#", "2", "#", "0", "#", "0", "*", "T", "2", "1", "/">> >>

\* C8: a finished set_temperature has sent one D#{rad_id}#{i}#0#0*T{target}/ to
\* every unit i = 1..unit_count in ascending order, whatever the units answered,
\* and returned true exactly when the last unit's call returned status OK; with
\* no unit it sent nothing and returned false.
C8_SetTemperature ==
    \A t \in Threads :
        LET f == frame[t]
            n == CountOf(f.rad_id)
        IN  (f.op = "set_temperature" /\ pc[t] = "done")
            => /\ f.result.kind = "return"
               /\ f.result.type = "bool"
               /\ f.sent = [i \in 1..n |-> SetCmd(f.rad_id, i, f.target)]
               /\ Len(f.resps) = n
               /\ f.result.val = (n >= 1 /\ Status(f.resps[n]) = OK)
               /\ (f.rad_id = 2 /\ f.target = 21) => f.sent = SetZone2To21

\* unit 1 answered OK, unit 2 answered ERR, and set_temperature returned false
C8_Witness ==
    \E t \in Threads :
        /\ frame[t].op = "set_temperature"
        /\ pc[t] = "done"
        /\ Len(frame[t].resps) = 2
        /\ Status(frame[t].resps[1]) = OK
        /\ frame[t].resps[2] = ReplyErr
        /\ frame[t].result.val = FALSE

\* the sum, over the responses with status OK, of raw_reading * scaled_multiplier,
\* as a numerator over Scale
RECURSIVE EnergyOf(_)
EnergyOf(resps) ==
    IF resps = <<>> THEN 0
    ELSE LET r == split(Head(resps))
         IN  (IF r[1] = OK THEN int(r[3]) * int(r[2]) ELSE 0) + EnergyOf(Tail(resps))

WellFormedUD(s) ==
    LET r == split(s) IN Len(r) >= 3 /\ IsInt(r[2]) /\ IsInt(r[3])

\* R#2#1#0#0*?UD/ and R#2#2#0#0*?UD/
ReadZone2 ==
    << <<"R", "#", "2", "#", "1", "#", "0", "#", "0", "*", "?", "U", "D", "/">>,
       <<"R", "#", "2", "#", "2", "#", "0", "#", "0", "*", "?", "U", "D", "/">> >>

\* C9: a get_energy_usage that has returned has sent one ?UD read to every unit
\* 1..unit_count in order; it returned null exactly when there is no unit or the
\* last unit's status is not OK, and otherwise the sum of raw_reading *
\* scaled_multiplier / 10000 over the units with status OK (150 for the replies
\* OK,5000,100 and OK,5000,200); it raises only on an OK reply that does not
\* carry two integers.
C9_EnergyUsage ==
    \A t \in Threads :
        LET f == frame[t]
            n == CountOf(f.rad_id)
        IN  (f.op = "get_energy_usage" /\ pc[t] = "done")
            => /\ f.result.kind = "raise"
                    => \E k \in 1..Len(f.resps) :
                          Status(f.resps[k]) = OK /\ ~WellFormedUD(f.resps[k])
               /\ f.result.kind = "return"
                    => /\ f.sent = [i \in 1..n |-> ReadCmd(f.rad_id, i, FieldUD)]
                       /\ Len(f.resps) = n
                       /\ f.result.type = "None"
                            <=> (n = 0 \/ Status(f.resps[n]) # OK)
                       /\ f.result.type # "None"
                            => /\ f.result.type = "float"
                               /\ f.result.val = EnergyOf(f.resps)
                       /\ f.rad_id = 2 => f.sent = ReadZone2
                       /\ f.resps = <<ReplyUnitA, decode(ReplyUnitB)>>
                            => /\ f.result.type = "float"
                               /\ f.result.val = 150 * Scale

\* the two units answered OK,5000,100 and OK,5000,200 and the call returned 150
C9_Witness ==
    \E t \in Threads :
        /\ frame[t].op = "get_energy_usage"
        /\ pc[t] = "done"
        /\ frame[t].resps = <<ReplyUnitA, decode(ReplyUnitB)>>
        /\ frame[t].result.kind = "return"
        /\ frame[t].result.type = "float"
        /\ frame[t].result.val = 150 * Scale

\* C10: a finished ready() has sent exactly one command, OPS1/, and returned true
\* exactly when the status token of the string it got is OPOK: false for the
\* unit-level OK, for an error and for "TIMEOUT".
C10_Ready ==
    \A t \in Threads :
        LET f == frame[t]
        IN  (f.op = "ready" /\ pc[t] = "done")
            => /\ f.sent = <<OPS1>>
               /\ Len(f.resps) = 1
               /\ f.result.kind = "return"
               /\ f.result.type = "bool"
               /\ f.result.val = (Status(f.resps[1]) = OPOK)
               /\ f.resps[1] \in {TIMEOUT, ReplyUnitA, ReplyErr} => f.result.val = FALSE

\* the hub answered OPS1/ with a unit-level OK and ready() returned false
C10_Witness ==
    \E t \in Threads :
        /\ frame[t].op = "ready"
        /\ pc[t] = "done"
        /\ frame[t].how = <<"own">>
        /\ Status(frame[t].resps[1]) = OK
        /\ frame[t].result.val = FALSE

\* the status token that means success to an operation: OPOK to the hub queries,
\* OK to the Radiator's reads and writes
SuccessToken(op) ==
    IF op \in {"HubInit", "ready", "get_fw", "get_nw", "get_time"} THEN OPOK ELSE OK

HubOps == {"ready", "get_fw", "get_nw", "get_time"}
RadiatorOps == {"RadiatorInit", "get_temperature", "set_temperature", "get_energy_usage"}

InRadiatorIds(rad_id) ==
    \E k \in 1..Len(hub.radiator_ids) : hub.radiator_ids[k] = rad_id

\* C11: after the construction of the Hub, an operation (a hub query, a Radiator
\* operation, or the construction of a Radiator for a rad_id in radiator_ids)
\* whose exchange came back with a non-success status token, "TIMEOUT" included,
\* has returned a value and not raised.
C11_NeverRaised ==
    \A t \in Threads :
        LET f == frame[t]
        IN  ( /\ pc[t] = "done"
              /\ f.op \in HubOps \cup RadiatorOps
              /\ f.op \in RadiatorOps => InRadiatorIds(f.rad_id)
              /\ f.resps # <<>>
              /\ Status(Last(f.resps)) # SuccessToken(f.op) )
            => f.result.kind = "return"

\* C12: no retries.  Every send_command call has transmitted exactly one datagram
\* (a thread has sent as many as it has made calls), answered or timed out; no
\* operation sends the same command twice; a finished hub query or
\* get_temperature has sent one command, and a set_temperature or
\* get_energy_usage never more than unit_count, exactly unit_count once it has
\* returned.
C12_NoRetry ==
    \A t \in Threads :
        LET f == frame[t]
        IN  /\ Len(f.sent) = Len(f.resps) + (IF pc[t] = "recvfrom" THEN 1 ELSE 0)
            /\ \A j \in 1..Len(f.sent) : \A k \in 1..Len(f.sent) :
                 j # k => f.sent[j] # f.sent[k]
            /\ (pc[t] = "done" /\ f.op \in HubOps \cup {"get_temperature"})
                 => Len(f.sent) = 1
            /\ f.op \in MultiUnit
                 => /\ Len(f.sent) <= CountOf(f.rad_id)
                    /\ (pc[t] = "done" /\ f.result.kind = "return")
                         => Len(f.sent) = CountOf(f.rad_id)

\* neither unit of a zone of two answered set_temperature: the call sent one
\* command to each and returned false
C12_Witness ==
    \E t \in Threads :
        /\ pc[t] = "done"
        /\ frame[t].op = "set_temperature"
        /\ frame[t].how = <<"timeout", "timeout">>
        /\ Len(frame[t].sent) = 2
        /\ frame[t].result = Return("bool", FALSE)

\* C13: a failed write leaves the reported state unchanged: when the entity's
\* call of Radiator.set_temperature has returned false, the target temperature
\* the climate entity reports after the call is the one it reported before.
C13_FailedWriteKeepsTarget ==
    [][\A t \in Threads :
         ( /\ pc[t] = "done"
           /\ pc'[t] = "idle"
           /\ frame[t].op = "set_temperature"
           /\ frame[t].result = Return("bool", FALSE) )
         => climate'[frame[t].rad_id].target = climate[frame[t].rad_id].target]_vars

IsPrefix(a, b) == Len(a) <= Len(b) /\ a = SubSeq(b, 1, Len(a))

\* C14 as claimed: the commands sent during a successful construction of the Hub
\* are exactly OPF/, OPS1/, OPS2/, OPS3/, in that order.
C14_HandshakeWithReadiness ==
    \A t \in Threads :
        (pc[t] = "done" /\ frame[t].op = "HubInit" /\ frame[t].result.kind = "return")
            => frame[t].sent = <<OPF, OPS1, OPS2, OPS3>>

\* C14 as amended: the commands sent during a successful construction of the Hub
\* are exactly OPF/, OPS2/, OPS3/, in that order (no readiness query, OPS1/, is
\* sent), each sent only after the previous exchange has completed.
C14_Handshake ==
    \A t \in Threads :
        LET f == frame[t]
        IN  f.op = "HubInit"
            => /\ IsPrefix(f.sent, <<OPF, OPS2, OPS3>>)
               /\ Len(f.sent) = Len(f.resps) + (IF pc[t] = "recvfrom" THEN 1 ELSE 0)
               /\ (pc[t] = "done" /\ f.result.kind = "return")
                    => /\ f.sent = <<OPF, OPS2, OPS3>>
                       /\ hub.state = "Ready"

\* the hub answered the three queries with OPOK and the Hub is constructed
C14_Witness ==
    /\ pc[Main] = "done"
    /\ frame[Main].op = "HubInit"
    /\ frame[Main].result.kind = "return"
    /\ \A k \in 1..3 : Status(frame[Main].resps[k]) = OPOK
    /\ hub.radiator_ids = <<0, 1, 2>>
    /\ hub.radiators_per_zone = <<0, 1, 2>>

\* C15 as claimed: the construction of a Radiator for a rad_id that is not in
\* radiator_ids fails without having sent any command to the hub.
C15_LookupBeforeFw ==
    \A t \in Threads :
        ( /\ pc[t] = "done"
          /\ frame[t].op = "RadiatorInit"
          /\ ~InRadiatorIds(frame[t].rad_id) )
        => frame[t].result.kind = "raise" /\ frame[t].sent = <<>>

\* C15 as amended: the construction of a Radiator issues the ?F read against unit
\* 1 first and resolves unit_count from the Hub's topology only when that exchange
\* has completed: for a rad_id that is not in radiator_ids it fails having sent
\* exactly that one command, and a ?UD read is sent only for a rad_id with a unit
\* count.
C15_FwBeforeLookup ==
    \A t \in Threads :
        LET f == frame[t]
        IN  f.op = "RadiatorInit"
            => /\ f.sent # <<>> => f.sent[1] = ReadCmd(f.rad_id, 1, FieldF)
               /\ pc[t] = "done" => f.sent # <<>>
               /\ Len(f.sent) >= 2 => Defined(f.rad_id)
               /\ (pc[t] = "done" /\ ~InRadiatorIds(f.rad_id))
                    => /\ f.result.kind = "raise"
                       /\ f.sent = <<ReadCmd(f.rad_id, 1, FieldF)>>
                       /\ Len(f.resps) = 1

\* unit 1 answered the ?F read with OK, rad_id is not in radiator_ids, and the
\* construction raised the ValueError of list.index
C15_Witness ==
    \E t \in Threads :
        /\ pc[t] = "done"
        /\ frame[t].op = "RadiatorInit"
        /\ ~InRadiatorIds(frame[t].rad_id)
        /\ frame[t].sent = <<ReadCmd(frame[t].rad_id, 1, FieldF)>>
        /\ frame[t].resps = <<ReplyUnitA>>
        /\ frame[t].result = Raise("ValueError")

\* the sum of the first response field over the ?UD responses with status OK
RECURSIVE PowerOf(_)
PowerOf(resps) ==
    IF resps = <<>> THEN 0
    ELSE LET r == split(Head(resps))
         IN  (IF r[1] = OK THEN int(r[2]) ELSE 0) + PowerOf(Tail(resps))

\* the k-th response of a Radiator construction has status OK and lacks what is
\* read from it: two fields of the ?F response, an integer first field of a ?UD
\* response
Unreadable(resps, k) ==
    LET r == split(resps[k])
    IN  /\ r[1] = OK
        /\ IF k = 1 THEN Len(r) < 3 ELSE Len(r) < 2 \/ ~IsInt(r[2])

\* the commands of the construction of a Radiator of n units: ?F to unit 1, then
\* ?UD to the units 1..n
InitCmds(rad_id, n) ==
    <<ReadCmd(rad_id, 1, FieldF)>> \o [i \in 1..n |-> ReadCmd(rad_id, i, FieldUD)]

\* C16 as claimed: the construction of a Radiator for a rad_id with a unit count
\* succeeds whatever the units reply.
C16_AlwaysSucceeds ==
    \A t \in Threads :
        (pc[t] = "done" /\ frame[t].op = "RadiatorInit" /\ Defined(frame[t].rad_id))
            => frame[t].result.kind = "return"

\* C16 as amended: the construction of a Radiator for a rad_id with a unit count
\* succeeds unless a reply with status OK lacks the fields read from it, and
\* then it raises at that reply; when it succeeds it has sent exactly
\* 1 + unit_count commands (?F to unit 1, then ?UD to units 1..unit_count in
\* order), firmware and serial are both null iff the ?F status is not OK (else
\* the two fields of the reply), and power is the sum of the first field over the
\* units whose ?UD status is OK.
C16_RadiatorInit ==
    \A t \in Threads :
        LET f == frame[t]
            n == CountOf(f.rad_id)
            made == radiators[f.rad_id]
        IN  (pc[t] = "done" /\ f.op = "RadiatorInit" /\ Defined(f.rad_id))
            => /\ IsPrefix(f.sent, InitCmds(f.rad_id, n))
               /\ f.result.kind = "raise"
                    <=> \E k \in 1..Len(f.resps) : Unreadable(f.resps, k)
               /\ f.result.kind = "raise" => Unreadable(f.resps, Len(f.resps))
               /\ f.result.kind = "return"
                    => /\ f.sent = InitCmds(f.rad_id, n)
                       /\ Len(f.resps) = 1 + n
                       /\ made.made
                       /\ made.firmware = Nothing <=> Status(f.resps[1]) # OK
                       /\ made.serial = Nothing <=> Status(f.resps[1]) # OK
                       /\ Status(f.resps[1]) = OK
                            => /\ made.firmware = Some(split(f.resps[1])[2])
                               /\ made.serial = Some(split(f.resps[1])[3])
                       /\ made.power = PowerOf(Tail(f.resps))

\* a Radiator of two units is constructed: the ?F read failed, unit 1 answered
\* OK,5000,100 and unit 2 did not answer; firmware is null and power 5000
C16_Witness ==
    \E t \in Threads :
        /\ pc[t] = "done"
        /\ frame[t].op = "RadiatorInit"
        /\ frame[t].rad_id = 2
        /\ frame[t].resps = <<ReplyErr, ReplyUnitA, TIMEOUT>>
        /\ frame[t].result.kind = "return"
        /\ radiators[2] = [made |-> TRUE, firmware |-> Nothing, serial |-> Nothing,
                           power |-> 5000]

\* C17: a constructed Hub is immutable: no step taken once the Hub is
\* constructed, whatever operation it belongs to and whatever its outcome,
\* changes the Hub's host, port, firmware, device_id, radiator_ids or
\* radiators_per_zone; and the steps of ready() change neither the Hub nor the
\* Radiators, the entities or the units.
C17_HubImmutable ==
    [][ /\ hub.state = "Ready" => hub' = hub
        /\ \A t \in Threads :
             (frame[t].op = "ready" /\ pc'[t] # pc[t])
                => /\ radiators' = radiators
                   /\ climate' = climate
                   /\ units' = units ]_vars

\* an operation on the constructed Hub has failed: get_fw() got no answer and
\* returned null, and the Hub has the attributes it was constructed with
C17_Witness ==
    \E t \in Threads :
        /\ pc[t] = "done"
        /\ frame[t].op = "get_fw"
        /\ frame[t].resps = <<TIMEOUT>>
        /\ frame[t].result = None
        /\ hub.state = "Ready"
        /\ hub.firmware = Some(<<"9">>)
        /\ hub.radiator_ids = <<0, 1, 2>>

Calling(t) == pc[t] \in {"acquire", "sendto", "recvfrom"}

\* C18: no lock is held across calls and no caller is blocked for ever: whenever
\* no thread is inside send_command's exclusive section the lock is free, and
\* every thread that is in a send_command call, waiting for the lock, sending or
\* receiving, eventually has all the calls of its operation returned, with a
\* reply or with "TIMEOUT", whether the hub answers or not.
C18_NoLockAcrossCalls ==
    /\ []((\A t \in Threads : ~InCall(t)) => lock = NoThread)
    /\ \A t \in Threads : Calling(t) ~> ~Calling(t)

\* the hub did not answer: one caller's call has returned "TIMEOUT" and left the
\* lock free while another caller waits for it
C18_Witness ==
    \E t \in Threads : \E u \in Threads :
        /\ t # u
        /\ pc[t] = "done"
        /\ frame[t].how # <<>>
        /\ Last(frame[t].how) = "timeout"
        /\ Last(frame[t].resps) = TIMEOUT
        /\ pc[u] = "acquire"
        /\ lock = NoThread

\* C19: two set_temperature calls of two threads with different targets on the
\* same zone of several units cannot leave the zone split: once both have
\* returned true, the hub having accepted every command of both, all units of the
\* zone hold the same target, that of one of the two calls.
C19_NoSplit ==
    \A t \in Threads : \A u \in Threads :
        ( /\ t # u
          /\ returned[t] # Nothing
          /\ returned[u] # Nothing
          /\ returned[t][1].rad_id = returned[u][1].rad_id
          /\ returned[t][1].target # returned[u][1].target
          /\ Len(units[returned[t][1].rad_id]) >= 2 )
        => LET z == units[returned[t][1].rad_id]
           IN  /\ \A i \in DOMAIN z : z[i] = z[1]
               /\ z[1] \in {Some(returned[t][1].target), Some(returned[u][1].target)}

====
